---- MODULE Spec2Model ----
(***************************************************************************)
(* Model of internal/provider/provider.go of jsvensson/detectify-tf: the   *)
(* provider's Configure, the authenticating transport's RoundTrip and the  *)
(* signature calculator CalculateSignature.                                *)
(*                                                                         *)
(* Text is a sequence of one-character strings, so that fmt.Sprintf is a   *)
(* concatenation whose result can be compared character by character.  A   *)
(* few longer tokens stand for the fixed runs of characters that Go's fmt  *)
(* package prints for values a %s verb cannot format.                      *)
(***************************************************************************)
EXTENDS Integers, Sequences, FiniteSets, TLC

(***************************************************************************)
(* Bounds of the model.                                                    *)
(***************************************************************************)
MaxTransports == 2
MaxCalls == 2

(***************************************************************************)
(* Header names (provider.go:73, 126, 127) and one name the transport      *)
(* never writes.                                                           *)
(***************************************************************************)
KeyHeader == "X-Detectify-Key"
TimestampHeader == "X-Detectify-Timestamp"
SignatureHeader == "X-Detectify-Signature"
AcceptHeader == "Accept"

(***************************************************************************)
(* Header values.  A value is either literal text or the base64 text of    *)
(* an HMAC-SHA256 digest; the digest is kept symbolic (key and message),   *)
(* i.e. HMAC is an ideal keyed function: equal digests iff equal key and   *)
(* equal message.                                                          *)
(***************************************************************************)
Text(s) == [kind |-> "text", key |-> <<>>, msg |-> s]

EmptyHeader == [n \in {} |-> <<>>]

\* http.Header.Set(key, value): the entry becomes the one-element slice.
HeaderSet(h, k, v) == [n \in (DOMAIN h) \cup {k} |-> IF n = k THEN <<v>> ELSE h[n]]

\* (mutation) an entry the request already has is kept
HeaderAssignKeep(h, k, values) ==
  IF k \in DOMAIN h THEN h
  ELSE [n \in (DOMAIN h) \cup {k} |-> IF n = k THEN values ELSE h[n]]

\* req.Header[k] = values
HeaderAssign(h, k, values) == [n \in (DOMAIN h) \cup {k} |-> IF n = k THEN values ELSE h[n]]

(***************************************************************************)
(* strconv.FormatInt(n, 10) and the %d verb.                               *)
(***************************************************************************)
Digits == <<"0", "1", "2", "3", "4", "5", "6", "7", "8", "9">>

RECURSIVE FormatNat(_)
FormatNat(n) == IF n < 10 THEN <<Digits[n + 1]>>
                ELSE FormatNat(n \div 10) \o <<Digits[(n % 10) + 1]>>

FormatInt(n) == IF n < 0 THEN <<"-">> \o FormatNat(0 - n) ELSE FormatNat(n)

(***************************************************************************)
(* base64.StdEncoding.DecodeString: quanta of four characters of the       *)
(* standard alphabet give three bytes; the last quantum may end in one or  *)
(* two '=' and give two or one bytes; anything else is a                   *)
(* CorruptInputError.                                                      *)
(***************************************************************************)
B64Chars == <<"A", "B", "C", "D", "E", "F", "G", "H", "I", "J", "K", "L", "M",
              "N", "O", "P", "Q", "R", "S", "T", "U", "V", "W", "X", "Y", "Z",
              "a", "b", "c", "d", "e", "f", "g", "h", "i", "j", "k", "l", "m",
              "n", "o", "p", "q", "r", "s", "t", "u", "v", "w", "x", "y", "z",
              "0", "1", "2", "3", "4", "5", "6", "7", "8", "9", "+", "/">>

IsB64(c) == \E i \in 1..64 : B64Chars[i] = c

B64Val(c) == (CHOOSE i \in 1..64 : B64Chars[i] = c) - 1

DecodeErr == [err |-> TRUE, bytes |-> <<>>]

RECURSIVE DecodeString(_)
DecodeString(s) ==
  IF s = <<>> THEN [err |-> FALSE, bytes |-> <<>>]
  ELSE IF Len(s) < 4 THEN DecodeErr
  ELSE LET rest == SubSeq(s, 5, Len(s))
           full == \A i \in 1..4 : IsB64(s[i])
           pad1 == IsB64(s[1]) /\ IsB64(s[2]) /\ IsB64(s[3]) /\ s[4] = "="
           pad2 == IsB64(s[1]) /\ IsB64(s[2]) /\ s[3] = "=" /\ s[4] = "="
           b1 == B64Val(s[1]) * 4 + (B64Val(s[2]) \div 16)
           b2 == (B64Val(s[2]) % 16) * 16 + (B64Val(s[3]) \div 4)
           b3 == (B64Val(s[3]) % 4) * 64 + B64Val(s[4])
       IN  IF full
             THEN LET r == DecodeString(rest)
                  IN  IF r.err THEN DecodeErr
                      ELSE [err |-> FALSE, bytes |-> <<b1, b2, b3>> \o r.bytes]
           ELSE IF pad1 /\ rest = <<>> THEN [err |-> FALSE, bytes |-> <<b1, b2>>]
           ELSE IF pad2 /\ rest = <<>> THEN [err |-> FALSE, bytes |-> <<b1>>]
           ELSE DecodeErr

(***************************************************************************)
(* Request bodies.  req.Body is an io.ReadCloser; the calculator formats   *)
(* it with the %s verb, which prints what fmt's reflection finds in the    *)
(* value, not what reading the stream would yield:                         *)
(*   nil      a request built without a body                               *)
(*   NoBody   http.NoBody, an empty struct                                 *)
(*   Buffer   io.NopCloser over a *bytes.Buffer (a Stringer)               *)
(*   Reader   io.NopCloser over a *strings.Reader (a struct of the string, *)
(*            the read offset and the previous rune)                       *)
(*   Handle   io.NopCloser over a buffering reader that holds its source   *)
(*            behind a pointer: the pointer's address is printed, the      *)
(*            payload is not                                               *)
(***************************************************************************)
NilBody == [kind |-> "nil", addr |-> 0, content |-> <<>>]

BodyString(b) ==
  CASE b.kind = "nil"    -> <<"%!s(<nil>)">>
    [] b.kind = "NoBody" -> <<"{", "}">>
    [] b.kind = "Buffer" -> <<"{">> \o b.content \o <<"}">>
    [] b.kind = "Reader" -> <<"{", "%!s(*strings.Reader=&{">> \o b.content
                              \o <<" ", "0", " ", "-", "1", "}", ")", "}">>
    [] b.kind = "Handle" -> <<"{", "%!s(*bufio.Reader=&{[] 0x">> \o FormatInt(b.addr)
                              \o <<" ", "0", " ", "0", " ", "<nil>", " ", "-", "1",
                                   " ", "-", "1", "}", ")", "}">>

(***************************************************************************)
(* CalculateSignature (provider.go:138-152).                               *)
(***************************************************************************)
\* (mutation) the timestamp is left out of the message
CanonicalMessageNoTimestamp(method, path, apiKey, timestamp, body) ==
  method \o <<";">> \o path \o <<";">> \o apiKey \o <<";">> \o <<";">> \o BodyString(body)

\* fmt.Sprintf("%s;%s;%s;%d;%s", req.Method, req.URL.Path, apiKey, timestamp.Unix(), req.Body)
CanonicalMessage(method, path, apiKey, timestamp, body) ==
  method \o <<";">> \o path \o <<";">> \o apiKey \o <<";">>
         \o FormatInt(timestamp) \o <<";">> \o BodyString(body)

\* hmac.New(sha256.New, key); mac.Write(value); base64 of mac.Sum(nil)
HmacBase64(key, value) == [kind |-> "hmac-sha256", key |-> key, msg |-> value]

Panic == [kind |-> "panic", key |-> <<>>, msg |-> <<>>]

\* (mutation) the decoding error is dropped and the bytes decoded so far are the key
CalculateSignatureIgnoringError(req, apiKey, secretKey, timestamp) ==
  HmacBase64(DecodeString(secretKey).bytes,
             CanonicalMessage(req.Method, req.Path, apiKey, timestamp, req.Body))

CalculateSignature(req, apiKey, secretKey, timestamp) ==
  LET d == DecodeString(secretKey)
  IN  IF d.err THEN Panic
      ELSE HmacBase64(d.bytes,
                      CanonicalMessage(req.Method, req.Path, apiKey, timestamp, req.Body))

(***************************************************************************)
(* Inputs.                                                                 *)
(***************************************************************************)
GET == <<"G", "E", "T">>
POST == <<"P", "O", "S", "T">>
AssetsPath == <<"/", "v", "2", "/", "a", "s", "s", "e", "t", "s">>
ScanPath == <<"/", "v", "2", "/", "s", "c", "a", "n">>
KeyABC == <<"a", "b", "c", "1", "2", "3">>
KeyK2 == <<"k", "2">>
SecretB64 == <<"c", "2", "V", "j", "c", "m", "V", "0">>
NotBase64 == <<"n", "o", "t", "-", "b", "a", "s", "e", "6", "4", "!", "!">>
JsonBody == <<"{", "}">>

\* api_key and signature attributes of the provider configuration
ConfigApiKeys == {KeyABC, KeyK2}
ConfigSignatures == {<<>>, SecretB64}

\* values of time.Now().Unix()
Times == {1700000000, 1700000001}

\* transports written as a composite literal with every field given
Literals ==
  { [Transport |-> "http.DefaultTransport",
     Headers |-> HeaderSet(EmptyHeader, KeyHeader, Text(KeyK2)),
     apiKey |-> KeyK2, secret |-> NotBase64, signature |-> NotBase64] }

\* the requests callers send: method, path, body and the caller's own headers
Requests ==
  { [Method |-> GET, Path |-> AssetsPath, Body |-> NilBody, Header |-> EmptyHeader],
    [Method |-> POST, Path |-> ScanPath,
     Body |-> [kind |-> "Buffer", addr |-> 1, content |-> JsonBody],
     Header |-> [n \in {AcceptHeader, KeyHeader, TimestampHeader, SignatureHeader} |->
                   IF n = KeyHeader THEN <<Text(<<"x">>), Text(<<"y">>)>>
                   ELSE <<Text(<<"0">>)>>]] }

\* what the underlying sender returns: a response or a transport error
SenderResults == { [resp |-> "200 OK", err |-> "nil"],
                   [resp |-> "nil", err |-> "dial tcp: timeout"] }

NoResult == [resp |-> "none", err |-> "none"]

(***************************************************************************)
(* State.                                                                  *)
(*   transports     the transport objects allocated so far                 *)
(*   constructed    for each transport, its fields when it was built and   *)
(*                  who built it (history)                                 *)
(*   DefaultClient  the process-wide http.DefaultClient                    *)
(*   providerData   the DetectifyProviderData values Configure handed out; *)
(*                  Client is a pointer to http.DefaultClient              *)
(*   configured     for each providerData, the configuration it was built  *)
(*                  from and the transport built with it (history)         *)
(*   calls          the RoundTrip calls, each with its request, its locals *)
(*                  and its position                                       *)
(*   crashed        the process died                                       *)
(*   calc           two inputs of the signature calculator and what it     *)
(*                  returned for each (used by SpecCalc only)              *)
(***************************************************************************)
VARIABLES transports, constructed, DefaultClient, providerData, configured,
          calls, crashed, calc

vars == <<transports, constructed, DefaultClient, providerData, configured,
          calls, crashed, calc>>

Pending == [kind |-> "pending", key |-> <<>>, msg |-> <<>>]

NoInput == [req |-> [Method |-> <<>>, Path |-> <<>>, Body |-> NilBody],
            apiKey |-> <<>>, timestamp |-> 0]

NoCalc == [a |-> NoInput, b |-> NoInput, secretKey |-> <<>>,
           sigA |-> Pending, sigB |-> Pending]

Init ==
  /\ transports = <<>>
  /\ constructed = <<>>
  /\ DefaultClient = [Transport |-> 0]
  /\ providerData = <<>>
  /\ configured = <<>>
  /\ calls = <<>>
  /\ crashed = FALSE
  /\ calc = NoCalc

(***************************************************************************)
(* DetectifyProvider.Configure (provider.go:63-90).  The action is the     *)
(* call whose configuration was read without error; when reading it fails  *)
(* Configure returns at provider.go:68 and nothing of this state changes.  *)
(***************************************************************************)
\* the transport literal of provider.go:77-81: apiKey and secret are not set
ConfigureTransport(api_key, signature) ==
  [Transport |-> "http.DefaultTransport",
   Headers |-> HeaderSet(EmptyHeader, KeyHeader, Text(api_key)),
   apiKey |-> <<>>,
   secret |-> <<>>,
   signature |-> signature]

\* client := http.DefaultClient; client.Transport = &transport{...}
ConfigureClient(client, t) == [client EXCEPT !.Transport = t]

Configure(api_key, signature) ==
  /\ ~crashed
  /\ Len(transports) < MaxTransports
  /\ LET t == Len(transports) + 1
         tr == ConfigureTransport(api_key, signature)
     IN  /\ transports' = Append(transports, tr)
         /\ constructed' = Append(constructed, [by |-> "Configure", fields |-> tr])
         /\ DefaultClient' = ConfigureClient(DefaultClient, t)
         /\ providerData' = Append(providerData,
                                   [Client |-> "http.DefaultClient", Signature |-> signature])
         /\ configured' = Append(configured,
                                 [api_key |-> api_key, signature |-> signature, transport |-> t])
  /\ UNCHANGED <<calls, crashed, calc>>

\* a transport built directly from the type (provider.go:113-119)
NewTransport(tr) ==
  /\ ~crashed
  /\ Len(transports) < MaxTransports
  /\ transports' = Append(transports, tr)
  /\ constructed' = Append(constructed, [by |-> "literal", fields |-> tr])
  /\ UNCHANGED <<DefaultClient, providerData, configured, calls, crashed, calc>>

(***************************************************************************)
(* transport.RoundTrip (provider.go:121-135), one action per statement so  *)
(* that calls on the same transport interleave.                            *)
(***************************************************************************)
NewCall(t, via, req) ==
  [t |-> t, via |-> via, req |-> req, Header |-> req.Header, pc |-> "start",
   ts |-> 0, signature |-> Panic, visited |-> {}, sends |-> 0,
   sent |-> EmptyHeader, sentReq |-> [Method |-> <<>>, Path |-> <<>>, Body |-> NilBody],
   senderResult |-> NoResult, returned |-> NoResult]

\* a request sent through the Client of a providerData: http.Client hands it
\* to the Transport the client holds at that moment
ClientDo(p, req) ==
  /\ ~crashed
  /\ Len(calls) < MaxCalls
  /\ p \in DOMAIN providerData
  /\ calls' = Append(calls, NewCall(DefaultClient.Transport, p, req))
  /\ UNCHANGED <<transports, constructed, DefaultClient, providerData, configured,
                 crashed, calc>>

\* RoundTrip called on a transport directly
RoundTrip(t, req) ==
  /\ ~crashed
  /\ Len(calls) < MaxCalls
  /\ t \in DOMAIN transports
  /\ calls' = Append(calls, NewCall(t, 0, req))
  /\ UNCHANGED <<transports, constructed, DefaultClient, providerData, configured,
                 crashed, calc>>

\* (mutation) every transport signs
SigningAlways(tr) == TRUE

\* provider.go:122: len(t.signature) > 0
Signing(tr) == Len(tr.signature) > 0

\* provider.go:123-124: ts := time.Now(); signature := CalculateSignature(...)
\* A panic of the calculator unwinds the call; the process dies unless a
\* caller recovers.
Sign(c, now, recovered) ==
  /\ ~crashed
  /\ calls[c].pc = "start"
  /\ Signing(transports[calls[c].t])
  /\ LET tr == transports[calls[c].t]
         sig == CalculateSignature(calls[c].req, tr.apiKey, tr.secret, now)
     IN  IF sig = Panic
           THEN /\ calls' = [calls EXCEPT ![c].pc = "panicked", ![c].ts = now]
                /\ crashed' = ~recovered
           ELSE /\ recovered
                /\ calls' = [calls EXCEPT ![c].pc = "setTimestamp", ![c].ts = now,
                                          ![c].signature = sig]
                /\ UNCHANGED crashed
  /\ UNCHANGED <<transports, constructed, DefaultClient, providerData, configured,
                 calc>>

\* provider.go:122: len(t.signature) == 0
SkipSign(c) ==
  /\ ~crashed
  /\ calls[c].pc = "start"
  /\ ~Signing(transports[calls[c].t])
  /\ calls' = [calls EXCEPT ![c].pc = "range"]
  /\ UNCHANGED <<transports, constructed, DefaultClient, providerData, configured,
                 crashed, calc>>

\* provider.go:126
SetTimestamp(c) ==
  /\ ~crashed
  /\ calls[c].pc = "setTimestamp"
  /\ transports' = [transports EXCEPT ![calls[c].t].Headers =
                      HeaderSet(@, TimestampHeader, Text(FormatInt(calls[c].ts)))]
  /\ calls' = [calls EXCEPT ![c].pc = "setSignature"]
  /\ UNCHANGED <<constructed, DefaultClient, providerData, configured, crashed, calc>>

\* provider.go:127
SetSignature(c) ==
  /\ ~crashed
  /\ calls[c].pc = "setSignature"
  /\ transports' = [transports EXCEPT ![calls[c].t].Headers =
                      HeaderSet(@, SignatureHeader, calls[c].signature)]
  /\ calls' = [calls EXCEPT ![c].pc = "range"]
  /\ UNCHANGED <<constructed, DefaultClient, providerData, configured, crashed, calc>>

\* provider.go:130-132, one iteration: the map is ranged over in no
\* particular order and each entry is read when it is reached.  (No key is
\* added to a transport's map while a call ranges over it: every call on a
\* signing transport has set both keys before its own loop starts.)
CopyHeader(c, k) ==
  /\ ~crashed
  /\ calls[c].pc = "range"
  /\ k \in DOMAIN transports[calls[c].t].Headers
  /\ k \notin calls[c].visited
  /\ calls' = [calls EXCEPT ![c].Header =
                              HeaderAssign(@, k, transports[calls[c].t].Headers[k]),
                            ![c].visited = @ \cup {k}]
  /\ UNCHANGED <<transports, constructed, DefaultClient, providerData, configured,
                 crashed, calc>>

\* (mutation) a transport error is swallowed
ReturnOfSwallowed(result) ==
  IF result.err # "nil" THEN [resp |-> "200 OK", err |-> "nil"] ELSE result

\* what RoundTrip returns for what the underlying sender returned
ReturnOf(result) == result

\* provider.go:134: return t.Transport.RoundTrip(req)
Delegate(c, result) ==
  /\ ~crashed
  /\ calls[c].pc = "range"
  /\ calls[c].visited = DOMAIN transports[calls[c].t].Headers
  /\ calls' = [calls EXCEPT ![c].pc = "done",
                            ![c].sends = @ + 1,
                            ![c].sent = calls[c].Header,
                            ![c].sentReq = [Method |-> calls[c].req.Method,
                                            Path |-> calls[c].req.Path,
                                            Body |-> calls[c].req.Body],
                            ![c].senderResult = result,
                            ![c].returned = ReturnOf(result)]
  /\ UNCHANGED <<transports, constructed, DefaultClient, providerData, configured,
                 crashed, calc>>

\* Two calls on one transport reach its header map at the same time, one of
\* them writing: a data race on a Go map.  Besides reading the old or the
\* new entry (the interleavings above) the runtime may stop the process
\* with "concurrent map writes" / "concurrent map iteration and map write".
Writing(c) == calls[c].pc \in {"setTimestamp", "setSignature"}

Ranging(c) == calls[c].pc = "range" /\ calls[c].visited # {}
              /\ calls[c].visited # DOMAIN transports[calls[c].t].Headers

ConcurrentMapFault ==
  /\ ~crashed
  /\ \E c1, c2 \in DOMAIN calls :
        /\ c1 # c2
        /\ calls[c1].t = calls[c2].t
        /\ Writing(c1)
        /\ Writing(c2) \/ Ranging(c2)
  /\ crashed' = TRUE
  /\ UNCHANGED <<transports, constructed, DefaultClient, providerData, configured,
                 calls, calc>>

Next ==
  \/ \E k \in ConfigApiKeys, s \in ConfigSignatures : Configure(k, s)
  \/ \E tr \in Literals : NewTransport(tr)
  \/ \E p \in 1..MaxTransports, req \in Requests : ClientDo(p, req)
  \/ \E t \in 1..MaxTransports, req \in Requests : RoundTrip(t, req)
  \/ \E c \in DOMAIN calls, now \in Times, recovered \in BOOLEAN : Sign(c, now, recovered)
  \/ \E c \in DOMAIN calls : SkipSign(c)
  \/ \E c \in DOMAIN calls : SetTimestamp(c)
  \/ \E c \in DOMAIN calls : SetSignature(c)
  \/ \E c \in DOMAIN calls, k \in {KeyHeader, TimestampHeader, SignatureHeader} : CopyHeader(c, k)
  \/ \E c \in DOMAIN calls, r \in SenderResults : Delegate(c, r)
  \/ ConcurrentMapFault

Spec == Init /\ [][Next]_vars

(***************************************************************************)
(* The calculator on its own: two inputs and one secret are drawn, and     *)
(* CalculateSignature is applied to the first and then to the second.      *)
(***************************************************************************)
PathA == <<"/", "a">>
PathAB == <<"/", "a", ";", "b">>
KeyC == <<"c">>
KeyBC == <<"b", ";", "c">>
PayloadX == <<"x">>
PayloadY == <<"y">>

CalcBodies ==
  { NilBody, [kind |-> "NoBody", addr |-> 0, content |-> <<>>] }
  \cup { [kind |-> k, addr |-> 1, content |-> PayloadX] : k \in {"Buffer", "Reader", "Handle"} }
  \cup { [kind |-> k, addr |-> 1, content |-> PayloadY] : k \in {"Buffer", "Handle"} }
  \cup { [kind |-> k, addr |-> 2, content |-> PayloadX] : k \in {"Buffer", "Handle"} }

CalcInputs ==
  { [req |-> [Method |-> m, Path |-> p, Body |-> b], apiKey |-> k, timestamp |-> ts] :
      m \in {GET, POST}, p \in {PathA, PathAB}, b \in CalcBodies,
      k \in {KeyC, KeyBC}, ts \in Times }

CalcSecrets == {SecretB64, NotBase64}

InitCalc ==
  /\ transports = <<>>
  /\ constructed = <<>>
  /\ DefaultClient = [Transport |-> 0]
  /\ providerData = <<>>
  /\ configured = <<>>
  /\ calls = <<>>
  /\ crashed = FALSE
  /\ calc \in { [a |-> x, b |-> y, secretKey |-> s, sigA |-> Pending, sigB |-> Pending] :
                  x \in CalcInputs, y \in CalcInputs, s \in CalcSecrets }

CalculateA ==
  /\ calc.sigA = Pending
  /\ calc' = [calc EXCEPT !.sigA =
                CalculateSignature(calc.a.req, calc.a.apiKey, calc.secretKey, calc.a.timestamp)]
  /\ UNCHANGED <<transports, constructed, DefaultClient, providerData, configured,
                 calls, crashed>>

CalculateB ==
  /\ calc.sigA # Pending
  /\ calc.sigB = Pending
  /\ calc' = [calc EXCEPT !.sigB =
                CalculateSignature(calc.b.req, calc.b.apiKey, calc.secretKey, calc.b.timestamp)]
  /\ UNCHANGED <<transports, constructed, DefaultClient, providerData, configured,
                 calls, crashed>>

NextCalc == CalculateA \/ CalculateB

SpecCalc == InitCalc /\ [][NextCalc]_vars

(***************************************************************************)
(* Properties.                                                             *)
(***************************************************************************)
Done(c) == calls[c].pc = "done"

\* the fields a transport was built with
Built(t) == constructed[t].fields

AuthHeaders == {TimestampHeader, SignatureHeader}

\* the transport was given a non-empty signature
SignatureConfigured(tr) == tr.signature # <<>>

\* C1: every request handed to the underlying sender carries the timestamp
\* and signature headers if and only if its transport was built with a
\* non-empty signature, and carries X-Detectify-Key with the configured key
\* in both modes.
C1_SignedIffConfigured ==
  \A c \in DOMAIN calls :
    Done(c) =>
      LET b == Built(calls[c].t)
      IN  /\ (AuthHeaders \subseteq DOMAIN calls[c].sent) <=> SignatureConfigured(b)
          /\ ~SignatureConfigured(b) => (AuthHeaders \cap DOMAIN calls[c].sent) = {}
          /\ KeyHeader \in DOMAIN calls[c].sent
          /\ calls[c].sent[KeyHeader] = b.Headers[KeyHeader]

\* C1 (amended): every request handed to the underlying sender carries
\* X-Detectify-Key with the configured key in both modes and, when the
\* transport was built with a non-empty signature, the timestamp and
\* signature headers; a transport built with an empty signature adds neither,
\* so each of the two is on the delegated request exactly when the caller's
\* request already carried it, with the caller's value.
C1_TransportSignsIffConfigured ==
  \A c \in DOMAIN calls :
    Done(c) =>
      LET b == Built(calls[c].t)
      IN  /\ SignatureConfigured(b) => AuthHeaders \subseteq DOMAIN calls[c].sent
          /\ ~SignatureConfigured(b) =>
               \A h \in AuthHeaders :
                 /\ (h \in DOMAIN calls[c].sent) <=> (h \in DOMAIN calls[c].req.Header)
                 /\ h \in DOMAIN calls[c].sent => calls[c].sent[h] = calls[c].req.Header[h]
          /\ KeyHeader \in DOMAIN calls[c].sent
          /\ calls[c].sent[KeyHeader] = b.Headers[KeyHeader]

\* both modes have delivered a request whose caller set none of the headers
C1_Witness ==
  /\ \E c \in DOMAIN calls :
       /\ Done(c) /\ ~SignatureConfigured(Built(calls[c].t))
       /\ calls[c].req.Header = EmptyHeader
       /\ DOMAIN calls[c].sent = {KeyHeader}
  /\ \E c \in DOMAIN calls :
       /\ Done(c) /\ SignatureConfigured(Built(calls[c].t))
       /\ calls[c].req.Header = EmptyHeader

\* C2: on a transport built by Configure from (api_key, signature) with a
\* non-empty signature, the X-Detectify-Signature of every delegated request
\* is the calculator's result for the request, the configured api_key, the
\* configured signature as secret and the timestamp sent in
\* X-Detectify-Timestamp.
C2_SignatureOfConfiguredCredentials ==
  \A c \in DOMAIN calls :
    (/\ Done(c)
     /\ constructed[calls[c].t].by = "Configure"
     /\ SignatureConfigured(Built(calls[c].t))) =>
      LET cfg == configured[CHOOSE p \in DOMAIN configured :
                              configured[p].transport = calls[c].t]
      IN  \E ts \in Times :
            /\ calls[c].sent[TimestampHeader] = <<Text(FormatInt(ts))>>
            /\ calls[c].sent[SignatureHeader] =
                 <<CalculateSignature(calls[c].req, cfg.api_key, cfg.signature, ts)>>

\* C3: when the calls in flight have distinct paths and timestamps, every
\* delivered request carries the timestamp and the signature computed for
\* that same request.
C3_OwnSignatureUnderConcurrency ==
  (\A c1, c2 \in DOMAIN calls :
      (c1 # c2 /\ calls[c1].pc # "start" /\ calls[c2].pc # "start") =>
        /\ calls[c1].req.Path # calls[c2].req.Path
        /\ calls[c1].ts # calls[c2].ts)
  => \A c \in DOMAIN calls :
       (Done(c) /\ SignatureConfigured(transports[calls[c].t])) =>
         LET tr == transports[calls[c].t]
         IN  /\ calls[c].sent[TimestampHeader] = <<Text(FormatInt(calls[c].ts))>>
             /\ calls[c].sent[SignatureHeader] =
                  <<CalculateSignature(calls[c].req, tr.apiKey, tr.secret, calls[c].ts)>>

\* C4: on a signing transport whose secret is not valid base64 a send fails
\* before any header is set: the request's headers and the transport's
\* header set stay as they were and the underlying sender is not invoked.
C4_BadSecretFailsBeforeHeaders ==
  \A c \in DOMAIN calls :
    LET tr == transports[calls[c].t]
    IN  (SignatureConfigured(tr) /\ DecodeString(tr.secret).err) =>
          /\ calls[c].pc \in {"start", "panicked"}
          /\ calls[c].sends = 0
          /\ calls[c].Header = calls[c].req.Header
          /\ tr.Headers = Built(calls[c].t).Headers
          /\ AuthHeaders \cap DOMAIN tr.Headers = {}

C4_Witness ==
  \E c \in DOMAIN calls :
    /\ calls[c].pc = "panicked"
    /\ DecodeString(transports[calls[c].t].secret).err
    /\ calls[c].sends = 0

\* C5: on the delegated request every header name of the transport's
\* configured header set has exactly the configured value, and every header
\* of the caller's request under another name has the caller's value.
C5_StaticHeadersOverrideOthersKept ==
  \A c \in DOMAIN calls :
    Done(c) =>
      LET static == Built(calls[c].t).Headers
      IN  /\ \A n \in DOMAIN static :
               n \in DOMAIN calls[c].sent /\ calls[c].sent[n] = static[n]
          /\ \A n \in DOMAIN calls[c].req.Header \ DOMAIN static :
               n \in DOMAIN calls[c].sent /\ calls[c].sent[n] = calls[c].req.Header[n]

\* C5 (amended): on the delegated request every header name of the
\* transport's configured header set has exactly the configured value, and
\* every header of the caller's request under another name has the caller's
\* value, except X-Detectify-Timestamp and X-Detectify-Signature on a signing
\* transport, which the transport overwrites as well.
C5_StaticOverrideOthersKeptExceptSigning ==
  \A c \in DOMAIN calls :
    Done(c) =>
      LET static == Built(calls[c].t).Headers
          written == IF SignatureConfigured(Built(calls[c].t)) THEN AuthHeaders ELSE {}
      IN  /\ \A n \in DOMAIN static :
               n \in DOMAIN calls[c].sent /\ calls[c].sent[n] = static[n]
          /\ \A n \in DOMAIN calls[c].req.Header \ (DOMAIN static \cup written) :
               n \in DOMAIN calls[c].sent /\ calls[c].sent[n] = calls[c].req.Header[n]

\* a signing and a non-signing transport have each delivered a request whose
\* caller had set X-Detectify-Key and other headers
C5_Witness ==
  \A mode \in BOOLEAN :
    \E c \in DOMAIN calls :
      /\ Done(c)
      /\ SignatureConfigured(Built(calls[c].t)) = mode
      /\ KeyHeader \in DOMAIN calls[c].req.Header
      /\ calls[c].req.Header[KeyHeader] # calls[c].sent[KeyHeader]
      /\ calls[c].sent[AcceptHeader] = calls[c].req.Header[AcceptHeader]

\* C6: a call invokes the underlying sender at most once, and a call that
\* has returned has invoked it exactly once, with the caller's method, path
\* and body, and has returned exactly what the sender returned.
C6_DelegatesOnceReturnsVerbatim ==
  \A c \in DOMAIN calls :
    /\ calls[c].sends <= 1
    /\ Done(c) =>
         /\ calls[c].sends = 1
         /\ calls[c].sentReq = [Method |-> calls[c].req.Method,
                                Path |-> calls[c].req.Path,
                                Body |-> calls[c].req.Body]
         /\ calls[c].senderResult \in SenderResults
         /\ calls[c].returned = calls[c].senderResult
    /\ ~Done(c) => calls[c].sends = 0 /\ calls[c].returned = NoResult

\* a transport error has come back through a signing and a non-signing call
C6_Witness ==
  \A mode \in BOOLEAN :
    \E c \in DOMAIN calls :
      /\ Done(c)
      /\ SignatureConfigured(transports[calls[c].t]) = mode
      /\ calls[c].returned.err # "nil"

\* C8: a transport's header set, secret and signing configuration are what
\* they were when the transport was built.
C8_TransportConfigurationUnchanged ==
  \A t \in DOMAIN transports : transports[t] = Built(t)

\* C10: a request sent through the Client a Configure call handed out is
\* authenticated with that call's api_key and signing mode.
C10_CredentialsBoundToClient ==
  \A c \in DOMAIN calls :
    (Done(c) /\ calls[c].via # 0) =>
      /\ calls[c].sent[KeyHeader] = <<Text(configured[calls[c].via].api_key)>>
      /\ SignatureConfigured(transports[calls[c].t]) = (Len(configured[calls[c].via].signature) > 0)

(***************************************************************************)
(* Properties of the calculator (SpecCalc).                                *)
(***************************************************************************)
Computed == calc.sigA.kind = "hmac-sha256" /\ calc.sigB.kind = "hmac-sha256"

\* the five values substituted into the canonical message
Fields(x) == <<x.req.Method, x.req.Path, x.apiKey, FormatInt(x.timestamp),
               BodyString(x.req.Body)>>

Differing(x, y) == {i \in 1..5 : Fields(x)[i] # Fields(y)[i]}

HasDelimiter(str) == \E i \in 1..Len(str) : str[i] = ";"

\* C7: two distinct (method, path, apiKey, timestamp, body) tuples never
\* yield the same canonical message, also when values contain ';'.
C7_CanonicalMessageInjective ==
  (Computed /\ Fields(calc.a) # Fields(calc.b)) => calc.sigA.msg # calc.sigB.msg

\* C7 (amended): two distinct tuples never yield the same canonical message
\* when they differ in exactly one of the five values, or when no method,
\* path or apiKey among them contains ';'; tuples that differ in several
\* values of which one contains ';' can collide.
C7_InjectiveOnOneFieldOrNoDelimiter ==
  (/\ Computed
   /\ Fields(calc.a) # Fields(calc.b)
   /\ \/ Cardinality(Differing(calc.a, calc.b)) = 1
      \/ \A x \in {calc.a, calc.b}, i \in 1..3 : ~HasDelimiter(Fields(x)[i]))
  => calc.sigA.msg # calc.sigB.msg

\* both signatures are computed for tuples that differ only in a path, one
\* of them with a ';' in it, next to an apiKey with a ';' in it
C7_Witness ==
  /\ Computed
  /\ Differing(calc.a, calc.b) = {2}
  /\ HasDelimiter(calc.a.req.Path)
  /\ HasDelimiter(calc.a.apiKey)

\* C9: two requests that agree on method, path, API key, secret, timestamp
\* and body payload get the same signature, and two requests that differ
\* only in body payload get different canonical messages.
C9_SignatureBindsPayload ==
  (/\ Computed
   /\ calc.a.req.Method = calc.b.req.Method
   /\ calc.a.req.Path = calc.b.req.Path
   /\ calc.a.apiKey = calc.b.apiKey
   /\ calc.a.timestamp = calc.b.timestamp)
  => /\ calc.a.req.Body.content = calc.b.req.Body.content => calc.sigA = calc.sigB
     /\ calc.a.req.Body.content # calc.b.req.Body.content => calc.sigA.msg # calc.sigB.msg
====
